---- MODULE Spec2Model ----
(***************************************************************************)
(* Speckle filters of SSWM/preprocess/filters.py: lee_filter2, lee_filter, *)
(* enhanced_lee_filter, moving_window_sd, window_stdev and the band driver *)
(* filter_image.                                                           *)
(*                                                                         *)
(* Arithmetic.  The filters compute in float32.  A float is modelled as a  *)
(* record: a finite value v stands for v/Scale (fixed point, every         *)
(* operation rounds its exact result to the nearest representable value,   *)
(* ties to even), and NaN, +Inf and -Inf are values of their own that      *)
(* follow the IEEE rules (x/0, 0/0, Inf*0, sqrt of a negative, comparisons *)
(* with NaN are false).                                                    *)
(***************************************************************************)
EXTENDS Integers, Sequences, FiniteSets, TLC

\* ------------------------------------------------------------------ bounds
Rows == 2
Cols == 2
MaxPix == 2
MaxLooks == 2
MaxWindow == 3
MaxDf == 1
MaxBands == 2

\* resolution of the arithmetic: 1/Scale is the spacing of finite values
Scale == 8

\* ------------------------------------------------------- float arithmetic
Num(v) == [k |-> "num", v |-> v]
NaN == [k |-> "nan", v |-> 0]
PInf == [k |-> "inf", v |-> 1]
NInf == [k |-> "inf", v |-> -1]
Zero == Num(0)
One == Num(Scale)

IsNum(x) == x.k = "num"
IsNaN(x) == x.k = "nan"
IsInf(x) == x.k = "inf"
IsFinite(x) == x.k = "num"

Abs(n) == IF n < 0 THEN -n ELSE n
Sgn(n) == IF n < 0 THEN -1 ELSE IF n > 0 THEN 1 ELSE 0

\* a/b for b > 0, rounded to the nearest integer, ties to even
RoundDiv(a, b) ==
    LET q == a \div b
        r == a % b
    IN  IF 2 * r < b THEN q
        ELSE IF 2 * r > b THEN q + 1
        ELSE IF q % 2 = 0 THEN q ELSE q + 1

\* sign of a float: -1, 0, 1 (NaN has none and is never asked)
FSign(x) == IF IsNum(x) THEN Sgn(x.v) ELSE x.v

FNeg(x) ==
    IF IsNum(x) THEN Num(-x.v)
    ELSE IF IsInf(x) THEN [k |-> "inf", v |-> -x.v]
    ELSE NaN

FAdd(x, y) ==
    IF IsNaN(x) \/ IsNaN(y) THEN NaN
    ELSE IF IsInf(x) /\ IsInf(y) THEN (IF x.v = y.v THEN x ELSE NaN)
    ELSE IF IsInf(x) THEN x
    ELSE IF IsInf(y) THEN y
    ELSE Num(x.v + y.v)

FSub(x, y) == FAdd(x, FNeg(y))

FMul(x, y) ==
    IF IsNaN(x) \/ IsNaN(y) THEN NaN
    ELSE IF IsInf(x) \/ IsInf(y)
         THEN (IF FSign(x) * FSign(y) = 0 THEN NaN
               ELSE [k |-> "inf", v |-> FSign(x) * FSign(y)])
    ELSE Num(RoundDiv(x.v * y.v, Scale))

FDiv(x, y) ==
    IF IsNaN(x) \/ IsNaN(y) THEN NaN
    ELSE IF IsInf(x) /\ IsInf(y) THEN NaN
    ELSE IF IsInf(x) THEN [k |-> "inf", v |-> IF FSign(y) < 0 THEN -x.v ELSE x.v]
    ELSE IF IsInf(y) THEN Zero
    ELSE IF y.v = 0
         THEN (IF x.v = 0 THEN NaN ELSE [k |-> "inf", v |-> Sgn(x.v)])
    ELSE Num(Sgn(y.v) * RoundDiv(Sgn(y.v) * x.v * Scale, Abs(y.v)))

\* floor of the square root of n >= 0
ISqrt(n) == CHOOSE r \in 0..n : r * r <= n /\ (r + 1) * (r + 1) > n

\* sqrt(v/Scale) = sqrt(v*Scale)/Scale, rounded to nearest
FSqrt(x) ==
    IF IsNaN(x) THEN NaN
    ELSE IF IsInf(x) THEN (IF x.v > 0 THEN PInf ELSE NaN)
    ELSE IF x.v < 0 THEN NaN
    ELSE LET n == x.v * Scale
             r == ISqrt(n)
         IN  IF n - r * r <= r THEN Num(r) ELSE Num(r + 1)

\* comparisons: false as soon as one side is NaN
FLess(x, y) ==
    IF IsNaN(x) \/ IsNaN(y) THEN FALSE
    ELSE IF IsInf(x) THEN x.v < 0 /\ ~(IsInf(y) /\ y.v < 0)
    ELSE IF IsInf(y) THEN y.v > 0
    ELSE x.v < y.v

FEq(x, y) == ~IsNaN(x) /\ ~IsNaN(y) /\ x = y
FLessEqual(x, y) == FLess(x, y) \/ FEq(x, y)
FGreaterEqual(x, y) == FLessEqual(y, x)

\* a boolean mask element used as a number (numpy: True -> 1, False -> 0)
MaskNum(b) == IF b THEN One ELSE Zero

\* e^t for t = n/Scale >= 0 in units of 1/1024, by the power series
RECURSIVE ExpSeries(_, _, _)
ExpSeries(n, k, term) ==
    IF k > 16 \/ term = 0 THEN 0
    ELSE term + ExpSeries(n, k + 1, (term * n) \div (Scale * k))

\* np.exp: exact at 0; beyond |x| = 4 the result underflows to 0 or
\* overflows to +Inf
FExp(x) ==
    IF IsNaN(x) THEN NaN
    ELSE IF IsInf(x) THEN (IF x.v > 0 THEN PInf ELSE Zero)
    ELSE IF x.v = 0 THEN One
    ELSE IF x.v <= -(4 * Scale) THEN Zero
    ELSE IF x.v >= 4 * Scale THEN PInf
    ELSE LET s == ExpSeries(Abs(x.v), 1, 1024)
         IN  IF x.v < 0 THEN Num(RoundDiv(Scale * 1024, s))
             ELSE Num(RoundDiv(Scale * s, 1024))

\* ---------------------------------------------------------------- arrays
\* A 2-D array is a sequence of rows, each a sequence of floats.  Arrays are
\* built as explicit tuples and bound once where they are read many times
\* (Bind, Grid), which fixes the order of evaluation and nothing else.
Bind(v, Body(_)) == CHOOSE res \in {Body(x) : x \in {v}} : TRUE
Bind2(u, v, Body(_, _)) == CHOOSE res \in {Body(x, y) : x \in {u}, y \in {v}} : TRUE
Line(F(_), n) == [i \in 1..n |-> F(i)] \o <<>>
Grid(F(_, _), h, w) == Line(LAMBDA r : Line(LAMBDA c : F(r, c), w), h)

Height(a) == Len(a)
Width(a) == Len(a[1])
Pixels(a) == (1..Height(a)) \X (1..Width(a))

Map1(F(_), a) ==
    Bind(a, LAMBDA x : Grid(LAMBDA r, c : F(x[r][c]), Height(x), Width(x)))
Map2(F(_, _), a, b) ==
    Bind2(a, b, LAMBDA x, y :
        Grid(LAMBDA r, c : F(x[r][c], y[r][c]), Height(x), Width(x)))

RECURSIVE SeqSum(_)
SeqSum(s) == IF s = <<>> THEN 0 ELSE Head(s) + SeqSum(Tail(s))

\* every pixel of the array, row after row
RECURSIVE Flatten(_)
Flatten(a) == IF a = <<>> THEN <<>> ELSE Head(a) \o Flatten(Tail(a))

\* scipy mode='reflect' (d c b a | a b c d | d c b a): the index, 1-based,
\* of the sample that position i of the extended line of length n reads
Reflect(i, n) ==
    LET m == (i - 1) % (2 * n)
    IN  IF m < n THEN m + 1 ELSE 2 * n - m

\* the mean of one window: the sum is divided by size and rounded once to
\* the output type
WindowMean(vals) ==
    IF \A k \in 1..Len(vals) : IsNum(vals[k])
    THEN Num(RoundDiv(SeqSum(Line(LAMBDA k : vals[k].v, Len(vals))), Len(vals)))
    ELSE NaN

\* scipy.ndimage.uniform_filter1d, origin 0: the window of output i covers
\* i - size \div 2 .. i - size \div 2 + size - 1
UniformFilter1D(line, size) ==
    Bind(line, LAMBDA ln :
        Line(LAMBDA i :
                Bind(Line(LAMBDA k :
                             ln[Reflect(i - (size \div 2) + k - 1, Len(ln))], size),
                     WindowMean),
             Len(ln)))

\* scipy.ndimage.uniform_filter with one size for both axes: axis 0 first
\* (every column is a line), then axis 1 (every row is a line)
uniform_filter(a, size) ==
    Bind(a, LAMBDA x :
        Bind(Line(LAMBDA c :
                     UniformFilter1D(Line(LAMBDA r : x[r][c], Height(x)), size),
                  Width(x)),
             LAMBDA cols :
                Line(LAMBDA r :
                        UniformFilter1D(Line(LAMBDA c : cols[c][r], Width(x)), size),
                     Height(x))))

FSquare(x) == FMul(x, x)

\* scipy.ndimage.variance over the selected values: sum((v - mean)^2)/count,
\* NaN (0/0) when nothing is selected
GroupVariance(vals) ==
    Bind(vals, LAMBDA vs :
        IF Len(vs) = 0 THEN NaN
        ELSE Bind(Num(RoundDiv(SeqSum(Line(LAMBDA i : vs[i].v, Len(vs))), Len(vs))),
                  LAMBDA mean :
                     Num(RoundDiv(
                         SeqSum(Line(LAMBDA i : FSquare(FSub(vs[i], mean)).v, Len(vs))),
                         Len(vs)))))

\* variance(img): every pixel
variance(a) == GroupVariance(Flatten(a))

\* label(d) then variance(d, lbl) with no index: the values where the label
\* is non-zero, i.e. the non-zero pixels, as one group
variance_labelled(a) ==
    GroupVariance(SelectSeq(Flatten(a), LAMBDA x : x # Zero))

\* ------------------------------------------------------ window statistics
\* t2[t2 < 0] = 0 (NaN < 0 is false: NaN stays)
ClampNeg(x) == IF FLess(x, Zero) THEN Zero ELSE x

\* an optional argument left at None, and a value that was not returned
None == <<>>

\* moving_window_sd: t2 (the variance, or its square root unless
\* return_variance) and, when return_mean, the mean m
moving_window_sd(data, window, return_mean, return_variance) ==
    Bind(uniform_filter(data, window), LAMBDA t1 :
        Bind(Map1(ClampNeg,
                  Map2(FSub, uniform_filter(Map1(FSquare, data), window),
                             Map1(FSquare, t1))),
             LAMBDA clamped :
                [t2 |-> IF return_variance THEN clamped ELSE Map1(FSqrt, clamped),
                 m |-> IF return_mean THEN t1 ELSE None]))

\* the value window_stdev puts under the square root (line 199)
window_stdev_radicand(img, window, img_mean, img_sqr_mean) ==
    Map2(FSub,
         IF img_sqr_mean = None
         THEN uniform_filter(Map1(FSquare, img), window)
         ELSE img_sqr_mean,
         Map1(FSquare, IF img_mean = None THEN uniform_filter(img, window)
                       ELSE img_mean))

window_stdev(img, window, img_mean, img_sqr_mean) ==
    Map1(FSqrt, window_stdev_radicand(img, window, img_mean, img_sqr_mean))

\* ------------------------------------------------------------ lee filters
\* the local variance of lee_filter2 (line 42), before it is used
lee2_variance(img, window) ==
    Map2(FSub, uniform_filter(Map1(FSquare, img), window),
               Map1(FSquare, uniform_filter(img, window)))

\* the arrays of lee_filter2; img_output is what it returns
lee_filter2_arrays(img, window) ==
    Bind2(uniform_filter(img, window), variance(img),
          LAMBDA img_mean, overall_variance :
             Bind2(lee2_variance(img, window), overall_variance,
                   LAMBDA img_variance, ov :
                      Bind(Map1(LAMBDA v : FDiv(v, FAdd(v, ov)), img_variance),
                           LAMBDA img_weights :
                              [img_mean |-> img_mean,
                               img_variance |-> img_variance,
                               overall_variance |-> ov,
                               img_weights |-> img_weights,
                               img_output |->
                                   Map2(FAdd, img_mean,
                                        Map2(FMul, img_weights,
                                                   Map2(FSub, img, img_mean)))])))

lee_filter2(img, window) == lee_filter2_arrays(img, window).img_output

\* the arrays of lee_filter: the clamped local variance, the mean, the
\* variance of the labelled pixels, the weights; d is what it returns
lee_filter_arrays(img, window) ==
    Bind2(moving_window_sd(img, window, TRUE, TRUE), variance_labelled(img),
          LAMBDA mw, labelled :
             Bind(Map2(FDiv, mw.t2, Map1(LAMBDA v : FAdd(labelled, v), mw.t2)),
                  LAMBDA weights :
                     [img_mean |-> mw.m,
                      img_variance |-> mw.t2,
                      overall_variance |-> labelled,
                      img_weights |-> weights,
                      d |-> Map2(FAdd, mw.m,
                                 Map2(FMul, weights, Map2(FSub, img, mw.m)))]))

lee_filter(img, window) == lee_filter_arrays(img, window).d

\* ----------------------------------------------------- enhanced lee filter
\* Cu = np.sqrt(1 / looks), Cmax = np.sqrt(1 + 2 / looks)
CuOf(looks) == FSqrt(FDiv(One, Num(looks * Scale)))
CmaxOf(looks) == FSqrt(FAdd(One, FDiv(Num(2 * Scale), Num(looks * Scale))))

\* M2 = np.less(Cu, Ci) * np.less(Ci, Cmax)
MaskM2(ci, Cu, Cmax) == FLess(Cu, ci) /\ FLess(ci, Cmax)
\* M1 = np.less_equal(Ci, Cu)
MaskM1(ci, Cu) == FLessEqual(ci, Cu)
\* M3 = np.greater_equal(Ci, Cu)
MaskM3(ci, Cu) == FGreaterEqual(ci, Cu)

\* W = np.exp((-df * (Ci - Cu)/(Cmax - Ci)) * M2), for one pixel
WeightW(ci, Cu, Cmax, df, m2) ==
    FExp(FMul(FDiv(FMul(Num(-(df * Scale)), FSub(ci, Cu)), FSub(Cmax, ci)),
              MaskNum(m2)))

\* R2 = (Im * W + Ic * (1-W)) * M2, for one pixel
BlendR2(im, ic, w, m2) ==
    FMul(FAdd(FMul(im, w), FMul(ic, FSub(One, w))), MaskNum(m2))

\* one pixel of enhanced_lee_filter from Ic, Im and S: Ci, the masks and
\* R = Im*M1 + R2 + Ic*M3
EleePixel(ic, im, s, Cu, Cmax, df) ==
    Bind(FDiv(s, im), LAMBDA ci :
        Bind2(MaskM2(ci, Cu, Cmax), MaskM1(ci, Cu), LAMBDA m2, m1 :
            Bind2(MaskM3(ci, Cu), WeightW(ci, Cu, Cmax, df, m2), LAMBDA m3, w :
                [Ic |-> ic, Im |-> im, S |-> s, Ci |-> ci,
                 M1 |-> m1, M2 |-> m2, M3 |-> m3, W |-> w,
                 R |-> FAdd(FAdd(FMul(im, MaskNum(m1)), BlendR2(im, ic, w, m2)),
                            FMul(ic, MaskNum(m3)))])))

\* the arrays of enhanced_lee_filter, pixel by pixel; field R is the result
enhanced_lee_arrays(img, looks, window, df) ==
    Bind2(CuOf(looks), CmaxOf(looks), LAMBDA Cu, Cmax :
        Bind(uniform_filter(img, window), LAMBDA Im :
            Bind(window_stdev(img, window, Im, None), LAMBDA S :
                Grid(LAMBDA r, c : EleePixel(img[r][c], Im[r][c], S[r][c], Cu, Cmax, df),
                     Height(img), Width(img)))))

enhanced_lee_filter(img, looks, window, df) ==
    Map1(LAMBDA px : px.R, enhanced_lee_arrays(img, looks, window, df))

\* ------------------------------------------------------------- the inputs
\* pixel values are the multiples of 1/2 up to MaxPix/2
PixelStep == Scale \div 2
PixelValues == {Num(p * PixelStep) : p \in 0..MaxPix}
Images == [1..Rows -> [1..Cols -> PixelValues]]
Windows == 1..MaxWindow
Looks == 1..MaxLooks
Dfs == 0..MaxDf

\* ----------------------------------------------- the filters, called alone
VARIABLES
    fin,        \* the arguments of the calls: img, window, looks, df
    fout        \* the last call: f the function ("none": no call yet), val
                \* what it returned; for the three filters val holds the
                \* arrays of the call, the returned one (d, img_output, R)
                \* among them

NoCall == [f |-> "none", val |-> None]

FiltersIdle ==
    /\ fin = [img |-> None, window |-> 1, looks |-> 1, df |-> 1]
    /\ fout = NoCall

InitFilters ==
    /\ fin \in [img : Images, window : Windows, looks : Looks, df : Dfs]
    /\ fout = NoCall

Call_lee_filter ==
    fout' = [f |-> "lee_filter", val |-> lee_filter_arrays(fin.img, fin.window)]

Call_lee_filter2 ==
    fout' = [f |-> "lee_filter2", val |-> lee_filter2_arrays(fin.img, fin.window)]

Call_enhanced_lee_filter ==
    fout' = [f |-> "enhanced_lee_filter",
             val |-> enhanced_lee_arrays(fin.img, fin.looks, fin.window, fin.df)]

Call_moving_window_sd ==
    \E return_mean \in BOOLEAN, return_variance \in BOOLEAN :
        fout' = [f |-> IF return_variance THEN "moving_window_sd:variance"
                       ELSE "moving_window_sd",
                 val |-> moving_window_sd(fin.img, fin.window,
                                          return_mean, return_variance)]

Call_window_stdev ==
    \E given \in BOOLEAN :
        fout' = [f |-> "window_stdev",
                 val |-> window_stdev(fin.img, fin.window,
                             IF given THEN uniform_filter(fin.img, fin.window)
                             ELSE None,
                             None)]

\* ------------------------------------------------------------ filter_image
VARIABLES
    pc,         \* position in filter_image
    filter,     \* the filter name, lower-cased
    kwargs,     \* the keyword arguments, a function of the keys given
    output,     \* TRUE when an output path is given, FALSE for output=None
    src,        \* the bands of the source raster img
    orig,       \* the bands of img when filter_image was called (history)
    arr,        \* what img.ReadAsArray() returned (None before the read)
    sink,       \* the bands of the raster cloneRaster created (None: not created)
    out,        \* the dataset `out` names: "img", "sink" or "unset"
    band_i,     \* the loop variable
    log,        \* the WriteArray and FlushCache calls made so far (history)
    err         \* the exception that left filter_image ("none": none)

vars == <<fin, fout, pc, filter, kwargs, output, src, orig, arr, sink, out,
          band_i, log, err>>
filterVars == <<fin, fout>>
driverVars == <<pc, filter, kwargs, output, src, orig, arr, sink, out,
                band_i, log, err>>

\* default arguments of lee_filter and enhanced_lee_filter
LeeDefaultWindow == 5
EleeDefaultWindow == 7
EleeDefaultDf == 1

\* the band contents the driver is run on: flat and striped bands
BandImages ==
    {[r \in 1..Rows |-> [c \in 1..Cols |->
        Num(((a + b * (r + c)) % (MaxPix + 1)) * PixelStep)]] : a, b \in {0, 1}}
Rasters == UNION {[1..n -> BandImages] : n \in 1..MaxBands}

FilterTable == {"lee", "elee"}
FilterChoices == FilterTable \cup {"frost"}

KwargKeys == {"looks", "window", "df"}
KwargValues(key) ==
    IF key = "looks" THEN Looks
    ELSE IF key = "window" THEN {MaxWindow}
    ELSE {MaxDf}
KwargSets ==
    UNION {{kw \in [keys -> Looks \cup {MaxWindow, MaxDf}] :
               \A key \in keys : kw[key] \in KwargValues(key)} :
           keys \in SUBSET KwargKeys}

RasterCount == Len(src)

\* the call filter(arr[band_i], **kwargs) binds: lee_filter takes window,
\* enhanced_lee_filter takes looks (required), window and df
KwargsBind(name, kw) ==
    IF name = "lee" THEN DOMAIN kw \subseteq {"window"}
    ELSE "looks" \in DOMAIN kw

ApplyFilter(name, band, kw) ==
    IF name = "lee"
    THEN lee_filter(band, IF "window" \in DOMAIN kw THEN kw["window"]
                          ELSE LeeDefaultWindow)
    ELSE enhanced_lee_filter(band, kw["looks"],
             IF "window" \in DOMAIN kw THEN kw["window"] ELSE EleeDefaultWindow,
             IF "df" \in DOMAIN kw THEN kw["df"] ELSE EleeDefaultDf)

\* out = img if output is None, else the clone
OutTarget_always_img(given) == "img"
OutTarget(given) == IF given THEN "sink" ELSE "img"

\* out.GetRasterBand(band_i + 1): the band the pass of band_i writes
BandNumber_zero_based(i) == i
BandNumber(i) == i + 1

\* the FlushCache calls made when the loop is over
FlushCalls_none(to) == <<>>
FlushCalls(to) == <<[op |-> "FlushCache", band |-> 0, to |-> to]>>

\* cloneRaster(img, output): a new raster, apart from img, with the bands of
\* img allocated; what the new bands hold is not fixed: zeros, or a copy
ZeroBand(band) == Map1(LAMBDA x : Zero, band)
cloneRaster(img) == {[b \in 1..Len(img) |-> ZeroBand(img[b])], img}

DriverIdle ==
    /\ pc = "idle" /\ filter = "lee" /\ kwargs = <<>> /\ output = FALSE
    /\ src = <<>> /\ orig = <<>> /\ arr = None /\ sink = None
    /\ out = "unset" /\ band_i = 0 /\ log = <<>> /\ err = "none"

Init ==
    /\ pc = "select"
    /\ filter \in FilterChoices
    /\ kwargs \in KwargSets
    /\ output \in BOOLEAN
    /\ src \in Rasters
    /\ orig = src
    /\ arr = None
    /\ sink = None
    /\ out = "unset"
    /\ band_i = 0
    /\ log = <<>>
    /\ err = "none"
    /\ FiltersIdle

\* filter = {'lee': ..., 'elee': ...}[filter.lower()]
SelectFilter ==
    /\ pc = "select"
    /\ IF filter \in FilterTable
       THEN pc' = "read" /\ err' = err
       ELSE pc' = "failed" /\ err' = "KeyError"
    /\ UNCHANGED <<filter, kwargs, output, src, orig, arr, sink, out, band_i, log>>
    /\ UNCHANGED filterVars

\* arr = img.ReadAsArray(), made 3-dimensional
ReadSource ==
    /\ pc = "read"
    /\ arr' = src
    /\ pc' = "create"
    /\ UNCHANGED <<filter, kwargs, output, src, orig, sink, out, band_i, log, err>>
    /\ UNCHANGED filterVars

\* out = img, or out = cloneRaster(img, output)
CreateOutput ==
    /\ pc = "create"
    /\ IF output THEN sink' \in cloneRaster(src) ELSE sink' = sink
    /\ out' = OutTarget(output)
    /\ band_i' = 0
    /\ pc' = IF RasterCount > 0 THEN "loop" ELSE "flush"
    /\ UNCHANGED <<filter, kwargs, output, src, orig, arr, log, err>>
    /\ UNCHANGED filterVars

\* one pass of the loop: filter the band, write it; an exception of the
\* filter call or of WriteArray leaves filter_image
FilterBand ==
    /\ pc = "loop"
    /\ IF ~KwargsBind(filter, kwargs)
       THEN /\ pc' = "failed" /\ err' = "TypeError"
            /\ UNCHANGED <<src, sink, band_i, log>>
       ELSE \E written \in BOOLEAN :
              IF written
              THEN LET filtered == ApplyFilter(filter, arr[band_i + 1], kwargs)
                   IN  /\ IF out = "img"
                          THEN /\ src' = [src EXCEPT ![BandNumber(band_i)] = filtered]
                               /\ sink' = sink
                          ELSE /\ sink' = [sink EXCEPT ![BandNumber(band_i)] = filtered]
                               /\ src' = src
                       /\ log' = Append(log, [op |-> "WriteArray",
                                              band |-> BandNumber(band_i), to |-> out])
                       /\ band_i' = band_i + 1
                       /\ pc' = IF band_i + 1 < RasterCount THEN "loop" ELSE "flush"
                       /\ err' = err
              ELSE /\ pc' = "failed" /\ err' = "IOError"
                   /\ UNCHANGED <<src, sink, band_i, log>>
    /\ UNCHANGED <<filter, kwargs, output, orig, arr, out>>
    /\ UNCHANGED filterVars

\* out.FlushCache()
Flush ==
    /\ pc = "flush"
    /\ log' = log \o FlushCalls(out)
    /\ pc' = "done"
    /\ UNCHANGED <<filter, kwargs, output, src, orig, arr, sink, out, band_i, err>>
    /\ UNCHANGED filterVars

Next == SelectFilter \/ ReadSource \/ CreateOutput \/ FilterBand \/ Flush

Spec == Init /\ [][Next]_vars

\* the filters called directly, on one set of arguments
InitF == InitFilters /\ DriverIdle

NextF ==
    \/ Call_lee_filter /\ UNCHANGED <<fin, driverVars>>
    \/ Call_lee_filter2 /\ UNCHANGED <<fin, driverVars>>
    \/ Call_enhanced_lee_filter /\ UNCHANGED <<fin, driverVars>>
    \/ Call_moving_window_sd /\ UNCHANGED <<fin, driverVars>>
    \/ Call_window_stdev /\ UNCHANGED <<fin, driverVars>>

SpecFilters == InitF /\ [][NextF]_vars

\* ============================================================== properties
\* the WriteArray and FlushCache calls of the log
Writes == SelectSeq(log, LAMBDA e : e.op = "WriteArray")
Flushes == SelectSeq(log, LAMBDA e : e.op = "FlushCache")
\* the raster the writes go to, and what a band of it may hold before it is
\* written
Target == IF out = "sink" THEN sink ELSE src
Untouched(b) == IF out = "sink" THEN {r[b] : r \in cloneRaster(orig)} ELSE {orig[b]}

\* C3: filter_image writes the bands in ascending order 1..RasterCount, each
\* once, and flushes once, after the last write and never before it.
C3_WriteOrderThenFlush ==
    /\ Len(Writes) <= RasterCount
    /\ \A i \in 1..Len(Writes) : Writes[i].band = i
    /\ Len(Flushes) <= 1
    /\ Len(Flushes) = 1 =>
          Len(Writes) = RasterCount /\ log[Len(log)].op = "FlushCache"
    /\ pc = "done" => Len(Writes) = RasterCount /\ Len(Flushes) = 1

C3_Witness ==
    /\ pc = "done" /\ RasterCount >= 2
    /\ Len(log) = RasterCount + 1

\* C4: with an output path the source bands keep their original values;
\* with output=None every source band ends as the filter of its own
\* original values.
C4_SourceFrame ==
    /\ output => src = orig
    /\ (~output /\ pc = "done") =>
          \A i \in 1..Len(orig) : src[i] = ApplyFilter(filter, orig[i], kwargs)

C4_Witness ==
    /\ pc = "done" /\ output /\ RasterCount >= 2
    /\ \A i \in 1..RasterCount :
          /\ sink[i] = ApplyFilter(filter, orig[i], kwargs)
          /\ sink[i] # src[i] /\ src[i] = orig[i]

\* C5: a configuration error (unknown filter name, or 'elee' without looks)
\* fails the call before the source is read, a sink is created or a band is
\* written.
ConfigurationError ==
    \/ filter \notin FilterTable
    \/ filter = "elee" /\ "looks" \notin DOMAIN kwargs

C5_FailFast ==
    (pc # "idle" /\ ConfigurationError) =>
        /\ pc # "done"
        /\ arr = None /\ sink = None /\ log = <<>>

\* C10: when the filter or the write of band k fails, the failure leaves
\* filter_image and exactly the bands below k have been written.
C10_PartialOutputOnFailure ==
    (pc = "failed" /\ err \in {"TypeError", "IOError"}) =>
        /\ Len(Writes) = band_i
        /\ \A i \in 1..Len(Writes) : Writes[i].band = i
        /\ Flushes = <<>>
        /\ \A b \in 1..RasterCount :
              IF b <= band_i
              THEN Target[b] = ApplyFilter(filter, orig[b], kwargs)
              ELSE Target[b] \in Untouched(b)

C10_Witness ==
    /\ pc = "failed" /\ err = "IOError"
    /\ band_i >= 1 /\ band_i < RasterCount
    /\ Len(Writes) = band_i

\* the pixels of the arrays enhanced_lee_filter worked on in the last call
EleeCalled == fout.f = "enhanced_lee_filter"
EleePixels == {fout.val[p[1]][p[2]] : p \in Pixels(fin.img)}
IsFlat(img) == \A p \in Pixels(img) : img[p[1]][p[2]] = img[1][1]
NonNegative(a) ==
    \A p \in Pixels(a) : IsNum(a[p[1]][p[2]]) /\ a[p[1]][p[2]].v >= 0

\* the blend of the docstring, W evaluated as written there
DocBlend(px, Cu, Cmax, df) ==
    LET W == FExp(FDiv(FMul(Num(-(df * Scale)), FSub(px.Ci, Cu)), FSub(Cmax, px.Ci)))
    IN  FAdd(FMul(px.Im, W), FMul(px.Ic, FSub(One, W)))

\* C1: every output pixel of enhanced_lee_filter is the piecewise reference:
\* Im for Ci <= Cu, Im*W + Ic*(1-W) for Cu < Ci < Cmax, Ic for Ci >= Cmax,
\* and nothing else is added.
C1_PiecewiseReference ==
    EleeCalled =>
        \A px \in EleePixels :
            LET Cu == CuOf(fin.looks)
                Cmax == CmaxOf(fin.looks)
            IN  /\ FLessEqual(px.Ci, Cu) => px.R = px.Im
                /\ (FLess(Cu, px.Ci) /\ FLess(px.Ci, Cmax))
                      => px.R = DocBlend(px, Cu, Cmax, fin.df)
                /\ FGreaterEqual(px.Ci, Cmax) => px.R = px.Ic

\* C2: the masks M1, M2, M3 partition the array: at every pixel, whatever
\* the value of Ci, exactly one of them is true.
C2_MasksPartition ==
    EleeCalled =>
        \A px \in EleePixels :
            ~IsNaN(px.Ci) =>
                /\ px.M1 \/ px.M2 \/ px.M3
                /\ ~(px.M1 /\ px.M2) /\ ~(px.M1 /\ px.M3) /\ ~(px.M2 /\ px.M3)

\* C6: enhanced_lee_filter yields no NaN and no Inf for a finite,
\* non-negative input and looks > 0; a pixel with Im = 0 outputs 0 and a
\* pixel with Ci = Cmax outputs the original pixel.
C6_NoNaNNoInf ==
    EleeCalled =>
        \A px \in EleePixels :
            /\ IsFinite(px.R)
            /\ px.Im = Zero => px.R = Zero
            /\ FEq(px.Ci, CmaxOf(fin.looks)) => px.R = px.Ic

\* C7: on a flat input lee_filter and lee_filter2 return the input.
C7_FlatIsFixed ==
    /\ (fout.f = "lee_filter" /\ IsFlat(fin.img)) => fout.val.d = fin.img
    /\ (fout.f = "lee_filter2" /\ IsFlat(fin.img)) => fout.val.img_output = fin.img

\* C8: on the same array and window lee_filter and lee_filter2 return the
\* same value at every pixel.
C8_LeeVariantsAgree ==
    fout.f = "lee_filter" => fout.val.d = lee_filter2(fin.img, fin.window)

\* C9: no window-statistics path lets a negative variance through:
\* moving_window_sd, window_stdev and the local variance of lee_filter2.
C9_VarianceClamped ==
    /\ fout.f \in {"moving_window_sd", "moving_window_sd:variance"}
          => NonNegative(fout.val.t2)
    /\ fout.f = "window_stdev" => NonNegative(fout.val)
    /\ fout.f = "lee_filter2" => NonNegative(fout.val.img_variance)

====
